---------------------------- MODULE Spec2Model ----------------------------
(***************************************************************************)
(* Debit Note Generator: the three-stage pipeline                          *)
(*   DataProcessor -> InterestCalculator -> DebitNoteGenerator             *)
(* and the run that app.main performs with them.                           *)
(*                                                                         *)
(* A text is a sequence of code points, each written as a one-element      *)
(* string ("1", ",", " ") or, outside ASCII, by its code ("U+20B9").       *)
(* A cell of a table is a record [k, s, v]:                                *)
(*   k = "str"  a text, held in s                                          *)
(*   k = "num"  a number, held in v as a fixed-point value                 *)
(*   k = "nan"  a missing value (NaN / None)                               *)
(*   k = "bool" a boolean, v = 1 for True                                  *)
(* Numbers are held in hundredths (12345.00 is 1234500); the column        *)
(* 'interest amount', which the code rounds to four places, is held in     *)
(* ten-thousandths.  The inputs use at most two decimal places and whole   *)
(* days, so these fixed-point values are exact.                            *)
(***************************************************************************)
EXTENDS Integers, Sequences, FiniteSets, TLC

VARIABLES
    pc,                 \* position of the run
    df_raw,             \* the uploaded table
    df_filtered,        \* result of DataProcessor.filter_overdue
    df_cleaned,         \* result of DataProcessor.clean_data
    df_with_interest,   \* result of InterestCalculator.calculate_interest
    df_debit_notes,     \* result of DebitNoteGenerator.generate_debit_notes
    opening_balance_age,\* argument of clean_data
    interest_calculator,\* the InterestCalculator object (its three fields)
    debit_note_gen,     \* the DebitNoteGenerator object (its two fields)
    error,              \* the exception that ended the run, or NoError
    session_state       \* st.session_state: the keys set and their values

vars == <<pc, df_raw, df_filtered, df_cleaned, df_with_interest,
          df_debit_notes, opening_balance_age, interest_calculator,
          debit_note_gen, error, session_state>>

---------------------------------------------------------------------------
(* Texts *)

Digits == <<"0", "1", "2", "3", "4", "5", "6", "7", "8", "9">>

IsDigit(c) == \E i \in 1..Len(Digits) : Digits[i] = c

DigitValue(c) == (CHOOSE i \in 1..Len(Digits) : Digits[i] = c) - 1

\* what str.strip() removes
IsSpace(c) == c \in {" ", "\t", "\n"}

Upper ==
    <<"A", "B", "C", "D", "E", "F", "G", "H", "I", "J", "K", "L", "M",
      "N", "O", "P", "Q", "R", "S", "T", "U", "V", "W", "X", "Y", "Z">>

Lower ==
    <<"a", "b", "c", "d", "e", "f", "g", "h", "i", "j", "k", "l", "m",
      "n", "o", "p", "q", "r", "s", "t", "u", "v", "w", "x", "y", "z">>

IndexIn(seq, c) == CHOOSE i \in 1..Len(seq) : seq[i] = c

Occurs(seq, c) == \E i \in 1..Len(seq) : seq[i] = c

\* the code point of a character: the order in which texts compare
CodePoint(c) ==
    CASE c = "\t" -> 9
      [] c = "\n" -> 10
      [] c = " " -> 32
      [] c = "#" -> 35
      [] c = "%" -> 37
      [] c = "+" -> 43
      [] c = "," -> 44
      [] c = "-" -> 45
      [] c = "." -> 46
      [] c = "/" -> 47
      [] Occurs(Digits, c) -> 47 + IndexIn(Digits, c)
      [] Occurs(Upper, c) -> 64 + IndexIn(Upper, c)
      [] Occurs(Lower, c) -> 96 + IndexIn(Lower, c)
      [] c = "U+00B9" -> 185
      [] c = "U+00E2" -> 226
      [] c = "U+201A" -> 8218
      [] c = "U+20B9" -> 8377

Prefix(s, n) == SubSeq(s, 1, n)

Drop(s, n) == SubSeq(s, n + 1, Len(s))

StartsWith(s, pat) == Len(pat) <= Len(s) /\ Prefix(s, Len(pat)) = pat

\* str.replace(pat, '', regex=False): every occurrence of pat, left to right
RECURSIVE str_remove(_, _)
str_remove(s, pat) ==
    IF s = <<>> THEN <<>>
    ELSE IF StartsWith(s, pat) THEN str_remove(Drop(s, Len(pat)), pat)
    ELSE <<Head(s)>> \o str_remove(Tail(s), pat)

RECURSIVE lstrip(_)
lstrip(s) ==
    IF s # <<>> /\ IsSpace(Head(s)) THEN lstrip(Tail(s)) ELSE s

RECURSIVE rstrip(_)
rstrip(s) ==
    IF s # <<>> /\ IsSpace(s[Len(s)]) THEN rstrip(Prefix(s, Len(s) - 1)) ELSE s

str_strip(s) == rstrip(lstrip(s))

\* lexicographic order of two texts by code point
RECURSIVE TextLess(_, _)
TextLess(a, b) ==
    IF b = <<>> THEN FALSE
    ELSE IF a = <<>> THEN TRUE
    ELSE IF Head(a) = Head(b) THEN TextLess(Tail(a), Tail(b))
    ELSE CodePoint(Head(a)) < CodePoint(Head(b))

---------------------------------------------------------------------------
(* Cells *)

Str(s) == [k |-> "str", s |-> s, v |-> 0]

Num(h) == [k |-> "num", s |-> <<>>, v |-> h]

NaN == [k |-> "nan", s |-> <<>>, v |-> 0]

Bool(b) == [k |-> "bool", s |-> <<>>, v |-> IF b THEN 1 ELSE 0]

\* a whole number n as a cell (n.00)
Whole(n) == Num(n * 100)

RECURSIVE NatToText(_)
NatToText(n) ==
    IF n < 10 THEN <<Digits[n + 1]>>
    ELSE NatToText(n \div 10) \o <<Digits[(n % 10) + 1]>>

\* str(i) of a Python int
IntToText(i) == IF i < 0 THEN <<"-">> \o NatToText(-i) ELSE NatToText(i)

\* str(x) of a float held in hundredths: "12345.0", "0.5", "-100.25"
FloatToText(h) ==
    LET a == IF h < 0 THEN -h ELSE h
        frac == a % 100
        fracText == IF frac % 10 = 0 THEN <<Digits[(frac \div 10) + 1]>>
                    ELSE <<Digits[(frac \div 10) + 1], Digits[(frac % 10) + 1]>>
    IN  (IF h < 0 THEN <<"-">> ELSE <<>>)
          \o NatToText(a \div 100) \o <<".">> \o fracText

\* Series.astype(str), one cell
astype_str(c) ==
    CASE c.k = "str" -> c.s
      [] c.k = "num" -> FloatToText(c.v)
      [] c.k = "bool" -> IF c.v = 1 THEN <<"T">> ELSE <<"F">>
      [] OTHER -> <<"n", "a", "n">>

AllDigits(s) == \A i \in 1..Len(s) : IsDigit(s[i])

RECURSIVE DigitsValue(_)
DigitsValue(s) ==
    IF s = <<>> THEN 0
    ELSE DigitsValue(Prefix(s, Len(s) - 1)) * 10 + DigitValue(s[Len(s)])

\* the position of the first "." of s, or 0
DotAt(s) ==
    IF \E i \in 1..Len(s) : s[i] = "."
    THEN CHOOSE i \in 1..Len(s) : s[i] = "." /\ \A j \in 1..(i - 1) : s[j] # "."
    ELSE 0

\* an unsigned decimal literal: digits, digits.digits, digits. or .digits
\* (at most two decimal places)
IsDecimal(s) ==
    LET d == DotAt(s)
    IN  IF d = 0 THEN s # <<>> /\ AllDigits(s)
        ELSE /\ AllDigits(Prefix(s, d - 1))
             /\ AllDigits(Drop(s, d))
             /\ Len(s) > 1
             /\ Len(s) - d <= 2

DecimalValue(s) ==
    LET d == DotAt(s)
    IN  IF d = 0 THEN DigitsValue(s) * 100
        ELSE LET f == Drop(s, d)
             IN  DigitsValue(Prefix(s, d - 1)) * 100
                   + (IF Len(f) = 1 THEN DigitsValue(f) * 10 ELSE DigitsValue(f))

\* to_numeric taking whole numbers only: a text with a decimal point is
\* no number
to_numeric_whole_only(s) ==
    LET signed == s # <<>> /\ Head(s) \in {"-", "+"}
        body == IF signed THEN Tail(s) ELSE s
    IN  IF body # <<>> /\ AllDigits(body)
        THEN Num(IF signed /\ Head(s) = "-" THEN -DigitsValue(body) * 100
                 ELSE DigitsValue(body) * 100)
        ELSE NaN

\* pd.to_numeric(errors='coerce'), one text: the number, or NaN when the
\* text is no number
to_numeric(s) ==
    LET signed == s # <<>> /\ Head(s) \in {"-", "+"}
        body == IF signed THEN Tail(s) ELSE s
    IN  IF IsDecimal(body)
        THEN Num(IF signed /\ Head(s) = "-" THEN -DecimalValue(body)
                 ELSE DecimalValue(body))
        ELSE NaN

\* fillna left out: a missing value stays missing
fillna_skipped(c, fill_na) == c

\* Series.fillna(fill_na), one cell
fillna(c, fill_na) == IF c.k = "nan" THEN Num(fill_na) ELSE c

\* the order of sort_values and groupby on a column: numbers by value,
\* texts by code point, missing values last (a column holds texts or
\* numbers, not both: the last two cases only make the order total)
CellLess(a, b) ==
    CASE a.k = "nan" -> FALSE
      [] b.k = "nan" -> TRUE
      [] a.k = "str" /\ b.k = "str" -> TextLess(a.s, b.s)
      [] a.k = "str" -> FALSE
      [] b.k = "str" -> TRUE
      [] OTHER -> a.v < b.v

---------------------------------------------------------------------------
(* Tables: a DataFrame is its set of column names and its rows in order;  *)
(* a row is its index label and its cell under each column.               *)

DataFrame(columns, rows) == [columns |-> columns, rows |-> rows]

EmptyFrame == DataFrame({}, <<>>)

Row(idx, cell) == [idx |-> idx, cell |-> cell]

\* df[col] = values, one value per row: adds the column or overwrites it
AssignColumn(df, col, values) ==
    DataFrame(df.columns \cup {col},
              [i \in DOMAIN df.rows |->
                  Row(df.rows[i].idx,
                      [c \in df.columns \cup {col} |->
                          IF c = col THEN values[i] ELSE df.rows[i].cell[c]])])

\* df[mask]: the rows whose entry of the boolean mask is True, in their
\* order, index labels kept
RECURSIVE SelectRows(_, _)
SelectRows(rows, mask) ==
    IF rows = <<>> THEN <<>>
    ELSE (IF Head(mask) THEN <<Head(rows)>> ELSE <<>>)
           \o SelectRows(Tail(rows), Tail(mask))

\* df[list of columns]
SelectColumns(df, cols) ==
    DataFrame(cols,
              [i \in 1..Len(df.rows) |->
                  Row(df.rows[i].idx, [c \in cols |-> df.rows[i].cell[c]])])

\* reset_index(drop=True): index labels 0, 1, 2, ...
reset_index(df) ==
    DataFrame(df.columns,
              [i \in 1..Len(df.rows) |-> Row(i - 1, df.rows[i].cell)])

Orderings(n) ==
    {p \in [1..n -> 1..n] : \A i, j \in 1..n : i # j => p[i] # p[j]}

\* sort_values(col) with the default kind='quicksort': ascending in col,
\* missing values last, rows with equal keys in an order the sort does not
\* promise.  The set of the orders it may return.
sort_values(df, col) ==
    LET n == Len(df.rows)
    IN  {DataFrame(df.columns, [i \in 1..n |-> df.rows[p[i]]]) :
            p \in {q \in Orderings(n) :
                     \A i, j \in 1..n :
                        i < j => ~CellLess(df.rows[q[j]].cell[col],
                                           df.rows[q[i]].cell[col])}}

\* the exceptions a stage raises
NoError == [type |-> "", arg |-> ""]

KeyError(col) == [type |-> "KeyError", arg |-> col]

\* the first column of needed (in the order the code reads them) that the
\* table does not hold, or "" when it holds them all
RECURSIVE FirstMissing(_, _)
FirstMissing(needed, columns) ==
    IF needed = <<>> THEN ""
    ELSE IF Head(needed) \notin columns THEN Head(needed)
    ELSE FirstMissing(Tail(needed), columns)

Returns(df) == [error |-> NoError, df |-> df]

Raises(e) == [error |-> e, df |-> EmptyFrame]

---------------------------------------------------------------------------
(* Objects.  A method is called with a table object.  df[...] = ... and   *)
(* df.loc[...] = ... write to the object the name df refers to; drop,     *)
(* copy, sort_values, reset_index, rename, groupby and df[columns] return *)
(* a new object, and df = ... makes the name refer to it.  A call is the  *)
(* objects it has met (objects[1] is the table it was passed), the one    *)
(* its name df refers to, and the exception it has raised, if any.        *)

Call(df) == [objects |-> <<df>>, df |-> 1, error |-> NoError]

\* the table the name df refers to
Deref(call) == call.objects[call.df]

\* the table the caller passed, as the call leaves it
Argument(call) == call.objects[1]

\* what the call returns or raises
Outcome(call) ==
    IF call.error # NoError THEN Raises(call.error) ELSE Returns(Deref(call))

\* df[...] = ...: reads the columns needed (KeyError on the first one
\* missing) and writes to the object df refers to, which becomes table
Written(call, needed, table) ==
    IF call.error # NoError THEN call
    ELSE IF FirstMissing(needed, Deref(call).columns) # ""
    THEN [call EXCEPT
            !.error = KeyError(FirstMissing(needed, Deref(call).columns))]
    ELSE [call EXCEPT !.objects[call.df] = table]

\* a step that returns no new object: its result replaces the object
\* that df refers to
Rebound_in_place(call, needed, table) == Written(call, needed, table)

\* df = <method that returns a new table>: reads the columns needed and
\* makes df refer to the new object; the old one is not written
Rebound(call, needed, table) ==
    IF call.error # NoError THEN call
    ELSE IF FirstMissing(needed, Deref(call).columns) # ""
    THEN [call EXCEPT
            !.error = KeyError(FirstMissing(needed, Deref(call).columns))]
    ELSE [call EXCEPT !.objects = Append(@, table),
                      !.df = Len(call.objects) + 1]

---------------------------------------------------------------------------
(* DataProcessor *)

Overdue == Str(<<"O", "v", "e", "r", "d", "u", "e">>)

CustomerOpeningBalance ==
    Str(<<"C", "u", "s", "t", "o", "m", "e", "r", " ", "O", "p", "e", "n",
          "i", "n", "g", " ", "B", "a", "l", "a", "n", "c", "e">>)

\* the literal of data_processor.py line 59: three code points
\* (U+00E2 U+201A U+00B9), not the rupee sign U+20B9
CurrencySymbolLiteral == <<"U+00E2", "U+201A", "U+00B9">>

DaysSuffix == <<" ", "D", "a", "y", "s">>

\* the text with its capital letters in lower case
LowerText(s) ==
    [i \in 1..Len(s) |->
        IF Occurs(Upper, s[i]) THEN Lower[IndexIn(Upper, s[i])] ELSE s[i]]

\* filter_overdue comparing without regard to case
filter_overdue_ignoring_case(df) ==
    IF "Status" \notin df.columns THEN Raises(KeyError("Status"))
    ELSE Returns(DataFrame(df.columns,
             SelectRows(df.rows,
                 [i \in DOMAIN df.rows |->
                     /\ df.rows[i].cell["Status"].k = "str"
                     /\ LowerText(df.rows[i].cell["Status"].s)
                           = LowerText(Overdue.s)])))

filter_overdue(df) ==
    IF "Status" \notin df.columns THEN Raises(KeyError("Status"))
    ELSE Returns(DataFrame(df.columns,
             SelectRows(df.rows,
                 [i \in DOMAIN df.rows |-> df.rows[i].cell["Status"] = Overdue])))

remove_duplicate_columns(df) ==
    SelectColumns(df, df.columns \ {"Sale person"})

clean_currency_text(c) ==
    str_strip(str_remove(str_remove(astype_str(c), CurrencySymbolLiteral), <<",">>))

clean_currency_column(df, column_name, fill_na) ==
    AssignColumn(df, column_name,
        [i \in DOMAIN df.rows |->
            fillna(to_numeric(clean_currency_text(df.rows[i].cell[column_name])),
                   fill_na)])

clean_age_text(c) == str_strip(str_remove(astype_str(c), DaysSuffix))

\* clean_age_column overriding only the ages that did not parse
clean_age_column_missing_only(df, opening_balance_age_) ==
    AssignColumn(df, "Age",
        [i \in DOMAIN df.rows |->
            LET parsed == to_numeric(clean_age_text(df.rows[i].cell["Age"]))
            IN  IF df.rows[i].cell["Type"] = CustomerOpeningBalance
                     /\ parsed.k = "nan"
                THEN Whole(opening_balance_age_)
                ELSE parsed])

clean_age_column(df, opening_balance_age_) ==
    AssignColumn(df, "Age",
        [i \in DOMAIN df.rows |->
            IF df.rows[i].cell["Type"] = CustomerOpeningBalance
            THEN Whole(opening_balance_age_)
            ELSE to_numeric(clean_age_text(df.rows[i].cell["Age"]))])

\* the call clean_data(df, opening_balance_age): line 102 drops the
\* column into a new object, lines 105-109 write to that object
clean_data_call(df, opening_balance_age_) ==
    LET c0 == Call(df)
        c1 == Rebound(c0, <<>>, remove_duplicate_columns(Deref(c0)))
        c2 == Written(c1, <<"Balance Due">>,
                      clean_currency_column(Deref(c1), "Balance Due", 0))
        c3 == Written(c2, <<"Amount">>,
                      clean_currency_column(Deref(c2), "Amount", 0))
        c4 == Written(c3, <<"Age", "Type">>,
                      clean_age_column(Deref(c3), opening_balance_age_))
    IN  c4

clean_data(df, opening_balance_age_) ==
    Outcome(clean_data_call(df, opening_balance_age_))

---------------------------------------------------------------------------
(* InterestCalculator *)

\* arithmetic on cells; a missing operand gives a missing result
Minus(a, b) == IF a.k = "nan" \/ b.k = "nan" THEN NaN ELSE Num(a.v - b.v)

\* Series.clip(upper=u), one cell
clip_upper(a, u) == IF a.k = "nan" THEN NaN ELSE Num(IF a.v > u THEN u ELSE a.v)

\* n / d rounded to the nearest integer, ties to the even one (numpy round)
RoundHalfEven(n, d) ==
    LET q == n \div d
        r == n - q * d
    IN  IF 2 * r < d THEN q
        ELSE IF 2 * r > d THEN q + 1
        ELSE IF q % 2 = 0 THEN q ELSE q + 1

\* __init__: the three arguments are stored as given
InterestCalculator(per_day_rate, due_days_threshold, max_working_days) ==
    [per_day_rate |-> per_day_rate,
     due_days_threshold |-> due_days_threshold,
     max_working_days |-> max_working_days]

\* df['Age'] >= threshold
AgeReaches(age, due_days_threshold) ==
    age.k = "num" /\ age.v >= due_days_threshold * 100

\* df['Age'] > threshold, one cell: a missing Age compares False
AgeExceeds(age, due_days_threshold) ==
    age.k = "num" /\ age.v > due_days_threshold * 100

filter_by_age(self, df) ==
    DataFrame(df.columns,
              SelectRows(df.rows,
                  [i \in DOMAIN df.rows |->
                      AgeExceeds(df.rows[i].cell["Age"], self.due_days_threshold)]))

\* days_overdue of one row
days_overdue(self, r) == Minus(r.cell["Age"], Whole(self.due_days_threshold))

\* the working days without the cap
interst_working_uncapped(self, r) == days_overdue(self, r)

interst_working(self, r) ==
    clip_upper(days_overdue(self, r), self.max_working_days * 100)

Previous_interst(self, r) == Minus(days_overdue(self, r), r.cell["interst working"])

calculate_working_days(self, df) ==
    LET d1 == AssignColumn(df, "Due days",
                  [i \in DOMAIN df.rows |-> Whole(self.due_days_threshold)])
        d2 == AssignColumn(d1, "interst working",
                  [i \in DOMAIN d1.rows |-> interst_working(self, d1.rows[i])])
    IN  AssignColumn(d2, "Previous interst",
                  [i \in DOMAIN d2.rows |-> Previous_interst(self, d2.rows[i])])

\* working days (hundredths) times rate (hundredths): exact for whole days
calculate_interest_percentage(self, df) ==
    LET d1 == AssignColumn(df, "per day interst%",
                  [i \in DOMAIN df.rows |-> Num(self.per_day_rate)])
    IN  AssignColumn(d1, "working interst in %",
            [i \in DOMAIN d1.rows |->
                LET r == d1.rows[i]
                IN  IF r.cell["interst working"].k = "nan" THEN NaN
                    ELSE Num((r.cell["interst working"].v
                                * r.cell["per day interst%"].v) \div 100)])

\* Balance Due * (percentage / 100), rounded to 4 places: ten-thousandths
calculate_interest_amount(self, df) ==
    AssignColumn(df, "interest amount",
        [i \in DOMAIN df.rows |->
            LET r == df.rows[i]
            IN  IF r.cell["Balance Due"].k = "nan"
                     \/ r.cell["working interst in %"].k = "nan"
                THEN NaN
                ELSE Num(RoundHalfEven(r.cell["Balance Due"].v
                             * r.cell["working interst in %"].v, 100))])

final_columns ==
    <<"Region", "Area Name", "Market", "Customer Name", "Customer Number",
      "DATE", "Transaction#", "Type", "Status", "Due Date", "Amount",
      "Balance Due", "Age", "Due days", "Previous interst",
      "interst working", "per day interst%", "working interst in %",
      "interest amount", "Sale Person">>

Range(seq) == {seq[i] : i \in 1..Len(seq)}

\* InterestCalculator.select_final_columns
InterestCalculator_select_final_columns(df) == SelectColumns(df, Range(final_columns))

\* the columns calculate_working_days .. calculate_interest_amount add
DerivedColumns ==
    {"Due days", "Previous interst", "interst working", "per day interst%",
     "working interst in %", "interest amount"}

\* the calls calculate_interest(df) may make, one per order the sort may
\* leave equal customer names in: lines 146 and 149 make new objects,
\* lines 152-158 write to the sorted one, line 161 selects into a new one
calculate_interest_calls(self, df) ==
    LET c0 == Call(df)
        c1 == Rebound(c0, <<"Age">>, filter_by_age(self, Deref(c0)))
        c2 == Written(c1, <<"Customer Name">>, Deref(c1))
    IN  IF c2.error # NoError THEN {c2}
        ELSE {LET c3 == Rebound(c2, <<>>, s)
                  c4 == Rebound(c3, <<>>, reset_index(Deref(c3)))
                  c5 == Written(c4, <<>>,
                                calculate_working_days(self, Deref(c4)))
                  c6 == Written(c5, <<>>,
                                calculate_interest_percentage(self, Deref(c5)))
                  c7 == Written(c6, <<"Balance Due">>,
                                calculate_interest_amount(self, Deref(c6)))
                  c8 == Rebound(c7, final_columns,
                                InterestCalculator_select_final_columns(Deref(c7)))
              IN  c8 : s \in sort_values(Deref(c2), "Customer Name")}

\* calculate_interest: the results it may return, or the KeyError it raises
calculate_interest(self, df) ==
    {Outcome(call) : call \in calculate_interest_calls(self, df)}

---------------------------------------------------------------------------
(* DebitNoteGenerator *)

\* __init__: the two arguments are stored as given
DebitNoteGenerator(invoice_prefix, starting_number) ==
    [invoice_prefix |-> invoice_prefix, starting_number |-> starting_number]

group_keys ==
    <<"Customer Number", "Customer Name", "Area Name", "Region",
      "Sales person">>

\* the grouping key of a row: its cells under group_keys
KeyOf(r) == [i \in 1..Len(group_keys) |-> r.cell[group_keys[i]]]

\* groupby drops the rows whose key has a missing value (dropna=True)
HasMissingKey(r) == \E i \in 1..Len(group_keys) : KeyOf(r)[i].k = "nan"

\* the order groupby(sort=True) puts the keys in: column by column
RECURSIVE KeyLess(_, _)
KeyLess(a, b) ==
    IF a = <<>> THEN FALSE
    ELSE IF CellLess(Head(a), Head(b)) THEN TRUE
    ELSE IF CellLess(Head(b), Head(a)) THEN FALSE
    ELSE KeyLess(Tail(a), Tail(b))

\* the keys of a set in ascending order
SortedKeys(keys) ==
    CHOOSE seq \in [1..Cardinality(keys) -> keys] :
        \A i, j \in 1..Cardinality(keys) : i < j => KeyLess(seq[i], seq[j])

\* sum of 'interest amount' over the rows of a group (missing values skipped)
RECURSIVE SumInterest(_, _)
SumInterest(rows, key) ==
    IF rows = <<>> THEN 0
    ELSE (IF KeyOf(Head(rows)) = key /\ Head(rows).cell["interest amount"].k = "num"
          THEN Head(rows).cell["interest amount"].v ELSE 0)
           + SumInterest(Tail(rows), key)

GroupKeys(df) ==
    {KeyOf(df.rows[i]) : i \in {j \in 1..Len(df.rows) : ~HasMissingKey(df.rows[j])}}

\* groupby(...).agg(sum).reset_index(), 'interest amount' renamed 'Total'
group_by_customer(df) ==
    LET keys == SortedKeys(GroupKeys(df))
        columns == Range(group_keys) \cup {"Total"}
    IN  DataFrame(columns,
            [g \in 1..Len(keys) |->
                Row(g - 1,
                    [c \in columns |->
                        IF c = "Total" THEN Num(SumInterest(df.rows, keys[g]))
                        ELSE keys[g][IndexIn(group_keys, c)]])])

\* round().astype(int): Total (ten-thousandths) becomes a whole number
round_totals(df) ==
    AssignColumn(df, "Total",
        [i \in DOMAIN df.rows |->
            Whole(RoundHalfEven(df.rows[i].cell["Total"].v, 10000))])

ODCharges == Str(<<"O", "D", " ", "C", "h", "a", "r", "g", "e", "s", " ",
                   "D", "e", "c", "-", "2", "0", "2", "5">>)

\* the constant fields, in the order the code adds them
ConstantFields ==
    <<<<"Description", ODCharges>>,
      <<"Invoice Status", Str(<<"O", "p", "e", "n">>)>>,
      <<"Accounts Receivable", Str(<<"A", "c", "c", "o", "u", "n", "t", "s",
        " ", "R", "e", "c", "e", "i", "v", "a", "b", "l", "e">>)>>,
      <<"Is Inclusive Tax", Bool(TRUE)>>,
      <<"Notes", ODCharges>>,
      <<"Invoice Type", Str(<<"D", "e", "b", "i", "t", " ", "N", "o", "t",
        "e", "s">>)>>,
      <<"Location Name", Str(<<"H", "e", "a", "d", " ", "O", "f", "f", "i",
        "c", "e">>)>>,
      <<"Item Desc", ODCharges>>,
      <<"Quantity", Whole(1)>>,
      <<"Item Type", Str(<<"s", "e", "r", "v", "i", "c", "e">>)>>,
      <<"Reason for issuing Debit Note", Str(<<"O", "t", "h", "e", "r",
        "s">>)>>,
      <<"Account", Str(<<"O", "D", " ", "C", "H", "A", "R", "G", "E",
        "S">>)>>,
      <<"Line Item Location Name", Str(<<"H", "E", "A", "D", " ", "O", "F",
        "F", "I", "C", "E">>)>>,
      <<"Supply Type", Str(<<"O", "u", "t", " ", "o", "f", " ", "S", "c",
        "o", "p", "e">>)>>,
      <<"CF.Bill Type", Str(<<"C", "r", "e", "d", "i", "t">>)>>>>

\* the fields copied from Total
TotalFields == {"SubTotal", "Balance", "Item Total", "Item Price"}

\* today is datetime.now().strftime('%Y-%m-%d')
add_debit_note_fields(df, today) ==
    LET added == {ConstantFields[i][1] : i \in 1..Len(ConstantFields)}
                    \cup TotalFields \cup {"Invoice Date", "Invoice No."}
        columns == df.columns \cup added
        constant(c) ==
            ConstantFields[CHOOSE i \in 1..Len(ConstantFields) :
                               ConstantFields[i][1] = c][2]
    IN  DataFrame(columns,
            [i \in 1..Len(df.rows) |->
                Row(df.rows[i].idx,
                    [c \in columns |->
                        CASE c \in TotalFields -> df.rows[i].cell["Total"]
                          [] c = "Invoice Date" -> Str(today)
                          [] c = "Invoice No." -> Str(<<>>)
                          [] c \in added -> constant(c)
                          [] OTHER -> df.rows[i].cell[c]])])

RECURSIVE Zeros(_)
Zeros(n) == IF n <= 0 THEN <<>> ELSE <<"0">> \o Zeros(n - 1)

\* str.zfill(width): zeros on the left, after a sign if there is one
zfill(s, width) ==
    IF Len(s) >= width THEN s
    ELSE IF s # <<>> /\ Head(s) \in {"+", "-"}
         THEN <<Head(s)>> \o Zeros(width - Len(s)) \o Tail(s)
    ELSE Zeros(width - Len(s)) \o s

\* the invoice number of the row at position i (0-based)
InvoiceNo(self, i) ==
    self.invoice_prefix \o zfill(IntToText(i + self.starting_number), 6)

\* numbers the rows in the order the table is in when it is called
generate_invoice_numbers(self, df) ==
    DataFrame(df.columns,
        [i \in 1..Len(df.rows) |->
            Row(df.rows[i].idx,
                [c \in df.columns |->
                    IF c = "Invoice No." THEN Str(InvoiceNo(self, i - 1))
                    ELSE df.rows[i].cell[c]])])

rename_customer_column(df) ==
    LET columns == (df.columns \ {"Customer Number"}) \cup {"Customer ID"}
    IN  DataFrame(columns,
            [i \in 1..Len(df.rows) |->
                Row(df.rows[i].idx,
                    [c \in columns |->
                        IF c = "Customer ID" THEN df.rows[i].cell["Customer Number"]
                        ELSE df.rows[i].cell[c]])])

cols_to_keep ==
    <<"Invoice Date", "Invoice No.", "Invoice Status", "Accounts Receivable",
      "Customer ID", "Customer Name", "Is Inclusive Tax", "SubTotal", "Total",
      "Balance", "Notes", "Invoice Type", "Location Name", "Item Desc",
      "Quantity", "Item Total", "Item Price", "Sales person", "Item Type",
      "Reason for issuing Debit Note", "Account", "Line Item Location Name",
      "Supply Type", "CF.Bill Type">>

\* DebitNoteGenerator.select_final_columns: the orders the final
\* sort_values(by='Customer ID') may return, each with its index reset
DebitNoteGenerator_select_final_columns(df) ==
    {reset_index(s) :
        s \in sort_values(SelectColumns(df, Range(cols_to_keep)), "Customer ID")}

\* the calls generate_debit_notes(df) may make: line 162 groups into a new
\* object, lines 165-171 write to it, lines 174 and 177 make new objects
generate_debit_notes_calls(self, df, today) ==
    LET c0 == Call(df)
        c1 == Rebound(c0, group_keys \o <<"interest amount">>,
                      group_by_customer(Deref(c0)))
        c2 == Written(c1, <<>>, round_totals(Deref(c1)))
        c3 == Written(c2, <<>>, add_debit_note_fields(Deref(c2), today))
        c4 == Written(c3, <<>>, generate_invoice_numbers(self, Deref(c3)))
        c5 == Rebound(c4, <<>>, rename_customer_column(Deref(c4)))
    IN  IF c5.error # NoError THEN {c5}
        ELSE {Rebound(c5, <<>>, d) :
                d \in DebitNoteGenerator_select_final_columns(Deref(c5))}

\* generate_debit_notes: the results it may return, or the KeyError it raises
generate_debit_notes(self, df, today) ==
    {Outcome(call) : call \in generate_debit_notes_calls(self, df, today)}
---------------------------------------------------------------------------
(* The run: app.main, lines 146-168.  The objects are constructed, then   *)
(* the stages are called one after the other; an exception of any stage   *)
(* ends the run.                                                          *)

None == [type |-> "None"]

\* st.session_state of a new session: no key is set
EmptySession == [key \in {} |-> None]

\* clean_data's default opening_balance_age (the run passes no other)
DefaultOpeningBalanceAge == 300

\* bounds of the model: the most rows of an input table
MaxRunRows == 2

MaxRawRows == 2

MaxCleanedRows == 2

MaxInterestRows == 3

\* the transaction reference of the i-th row of a sheet: "INV-<i>"
TransactionNo(i) == Str(<<"I", "N", "V", "-">> \o NatToText(i))

\* the table of m rows with the cells f[1], ..., f[m], under the index
\* labels 0, 1, 2, ...; each row has its own transaction reference
Table(columns, f, m) ==
    DataFrame(columns,
        [i \in 1..m |->
            Row(i - 1, [c \in columns |->
                          IF c = "Transaction#" THEN TransactionNo(i)
                          ELSE f[i][c]])])

\* the columns of the uploaded sheet that the stages read
RawColumns ==
    {"Region", "Area Name", "Market", "Customer Name", "Customer Number",
     "DATE", "Transaction#", "Type", "Status", "Due Date", "Amount",
     "Balance Due", "Age", "Sale Person"}

Invoice == Str(<<"I", "n", "v", "o", "i", "c", "e">>)

\* a row of the sheet: the cells that vary, the others fixed
RawRow(columns, number, name, type, status, amount, balance, age) ==
    [c \in columns |->
        CASE c = "Region" -> Str(<<"N", "o", "r", "t", "h">>)
          [] c = "Area Name" -> Str(<<"A", "r", "e", "a", " ", "1">>)
          [] c = "Market" -> Str(<<"M", "a", "r", "k", "e", "t", " ", "1">>)
          [] c = "Customer Name" -> name
          [] c = "Customer Number" -> number
          [] c = "DATE" -> Str(<<"2", "0", "2", "5", "-", "0", "6", "-", "0",
                      "1">>)
          [] c = "Transaction#" -> Str(<<"I", "N", "V", "-", "1">>)
          [] c = "Type" -> type
          [] c = "Status" -> status
          [] c = "Due Date" -> Str(<<"2", "0", "2", "5", "-", "0", "7", "-",
                      "0", "1">>)
          [] c = "Amount" -> amount
          [] c = "Balance Due" -> balance
          [] c = "Age" -> age
          [] OTHER -> Str(<<"S", "1">>)]

\* the configurations a caller may pass: the constructors take any number
PerDayRates == {-6, 6}

DueDaysThresholds == {150}

MaxWorkingDays == {0, 31}

StartingNumbers == {0, 311, 1000000}

InvoicePrefix == <<"C", "D", "N", "/", "S", "A", "-">>

Dates == {<<"2", "0", "2", "5", "-", "1", "2", "-", "3", "1">>, <<"2", "0",
            "2", "6", "-", "0", "1", "-", "0", "1">>}

\* the sheets of the run: with and without the columns some sheets lack
RunColumns ==
    {RawColumns, RawColumns \cup {"Sale person"},
     RawColumns \cup {"Sale person", "Sales person"},
     RawColumns \ {"Market"}, RawColumns \ {"Status"}}

RunCells(columns) ==
    {RawRow(columns, number, Str(<<"A">>), Invoice, status, Str(<<"1", ",",
                      "0", "0", "0", ".", "0", "0">>),
            Str(<<"1", ",", "0", "0", "0", ".", "0", "0">>), age) :
        number \in {Whole(1), Whole(2)},
        status \in {Overdue, Str(<<"P", "a", "i", "d">>)},
        age \in {Str(<<"2", "0", "0", " ", "D", "a", "y", "s">>), Str(<<"1",
                      "0", "0", " ", "D", "a", "y", "s">>)}}

Init ==
    /\ pc = "construct"
    /\ \E columns \in RunColumns, m \in 0..MaxRunRows :
          \E f \in [1..m -> RunCells(columns)] : df_raw = Table(columns, f, m)
    /\ df_filtered = None
    /\ df_cleaned = None
    /\ df_with_interest = None
    /\ df_debit_notes = None
    /\ opening_balance_age = DefaultOpeningBalanceAge
    /\ interest_calculator = None
    /\ debit_note_gen = None
    /\ error = NoError
    /\ session_state = EmptySession

\* InterestCalculator(...) and DebitNoteGenerator(...): app.py 146-155
Construct ==
    /\ pc = "construct"
    /\ \E per_day_rate \in PerDayRates,
          due_days_threshold \in DueDaysThresholds,
          max_working_days \in MaxWorkingDays,
          starting_number \in StartingNumbers :
          /\ interest_calculator' =
                InterestCalculator(per_day_rate, due_days_threshold,
                                   max_working_days)
          /\ debit_note_gen' = DebitNoteGenerator(InvoicePrefix, starting_number)
    /\ pc' = "filter_overdue"
    /\ UNCHANGED <<df_raw, df_filtered, df_cleaned, df_with_interest,
                   df_debit_notes, opening_balance_age, error,
                   session_state>>

\* data_processor.filter_overdue(df_raw): app.py 159
FilterOverdue ==
    /\ pc = "filter_overdue"
    /\ LET result == filter_overdue(df_raw)
       IN  IF result.error = NoError
           THEN /\ df_filtered' = result.df
                /\ pc' = "clean_data"
                /\ error' = error
           ELSE /\ error' = result.error
                /\ pc' = "error"
                /\ df_filtered' = df_filtered
    /\ UNCHANGED <<df_raw, df_cleaned, df_with_interest, df_debit_notes,
                   opening_balance_age, interest_calculator, debit_note_gen,
                   session_state>>

\* data_processor.clean_data(df_filtered): app.py 160
CleanData ==
    /\ pc = "clean_data"
    /\ LET call == clean_data_call(df_filtered, opening_balance_age)
           result == Outcome(call)
       IN  /\ df_filtered' = Argument(call)
           /\ IF result.error = NoError
               THEN /\ df_cleaned' = result.df
                    /\ pc' = "calculate_interest"
                    /\ error' = error
               ELSE /\ error' = result.error
                    /\ pc' = "error"
                    /\ df_cleaned' = df_cleaned
    /\ UNCHANGED <<df_raw, df_with_interest, df_debit_notes,
                   opening_balance_age, interest_calculator, debit_note_gen,
                   session_state>>

\* interest_calculator.calculate_interest(df_cleaned): app.py 164
CalculateInterest ==
    /\ pc = "calculate_interest"
    /\ \E call \in calculate_interest_calls(interest_calculator, df_cleaned) :
       LET result == Outcome(call)
       IN /\ df_cleaned' = Argument(call)
          /\ IF result.error = NoError
              THEN /\ df_with_interest' = result.df
                   /\ pc' = "generate_debit_notes"
                   /\ error' = error
              ELSE /\ error' = result.error
                   /\ pc' = "error"
                   /\ df_with_interest' = df_with_interest
    /\ UNCHANGED <<df_raw, df_filtered, df_debit_notes,
                   opening_balance_age, interest_calculator, debit_note_gen,
                   session_state>>

\* debit_note_gen.generate_debit_notes(df_with_interest): app.py 168
GenerateDebitNotes ==
    /\ pc = "generate_debit_notes"
    /\ \E today \in Dates :
       \E call \in generate_debit_notes_calls(debit_note_gen,
                                              df_with_interest, today) :
       LET result == Outcome(call)
       IN /\ df_with_interest' = Argument(call)
          /\ IF result.error = NoError
              THEN /\ df_debit_notes' = result.df
                   /\ pc' = "done"
                   /\ error' = error
              ELSE /\ error' = result.error
                   /\ pc' = "error"
                   /\ df_debit_notes' = df_debit_notes
    /\ UNCHANGED <<df_raw, df_filtered, df_cleaned,
                   opening_balance_age, interest_calculator, debit_note_gen,
                   session_state>>

Next ==
    \/ Construct
    \/ FilterOverdue
    \/ CleanData
    \/ CalculateInterest
    \/ GenerateDebitNotes

Spec == Init /\ [][Next]_vars

---------------------------------------------------------------------------
(* The Cleaner alone: filter_overdue, then clean_data, on sheets whose    *)
(* Status, Type, Age, Balance Due and Amount cells vary.                  *)

\* texts a sheet may hold in Age, Balance Due and Amount
RupeeAmountText == <<"U+20B9", "1", "2", ",", "3", "4", "5", ".", "0", "0">>

PlainAmountText == <<"1", "2", ",", "3", "4", "5", ".", "0", "0">>

UnparseableText == <<"a", "b", "c">>

EmptyText == <<>>

NegativeAmountText == <<"-", "1", "0", "0">>

PaddedAmountText == <<" ", "1", ",", "0", "0", "0", " ">>

LiteralAmountText == CurrencySymbolLiteral \o <<"5", "0", "0">>

DaysAgeText == <<"2", "0", "0", " ", "D", "a", "y", "s">>

PlainAgeText == <<"1", "5", "0">>

PaddedAgeText == <<" ", "3", "1", " ", "D", "a", "y", "s", " ">>

\* (Age, Balance Due, Amount) as a sheet may hold them: texts, numbers
\* (a numeric cell of the sheet) or nothing (an empty cell)
RawSamples ==
    {<<Str(DaysAgeText), Str(RupeeAmountText), Str(PlainAmountText)>>,
     <<Str(UnparseableText), Str(UnparseableText), Str(EmptyText)>>,
     <<NaN, Str(EmptyText), Str(RupeeAmountText)>>,
     <<Str(PlainAgeText), Str(NegativeAmountText), Str(PaddedAmountText)>>,
     <<Whole(151), Whole(100), Str(UnparseableText)>>,
     <<Str(PaddedAgeText), Str(LiteralAmountText), NaN>>}

RawStatuses == {Overdue, Str(<<"o", "v", "e", "r", "d", "u", "e">>),
                      Str(<<"P", "a", "i", "d">>)}

RawTypes == {Invoice, CustomerOpeningBalance}

OpeningBalanceAges == {DefaultOpeningBalanceAge, 365}

CleanerCells(columns) ==
    {RawRow(columns, Whole(1), Str(<<"A">>), type, status, sample[3],
                      sample[2],
            sample[1]) :
        type \in RawTypes, status \in RawStatuses, sample \in RawSamples}

InitCleaner ==
    /\ pc = "filter_overdue"
    /\ \E columns \in {RawColumns, RawColumns \cup {"Sale person"}},
          m \in 0..MaxRawRows :
          \E f \in [1..m -> CleanerCells(columns)] : df_raw = Table(columns, f, m)
    /\ df_filtered = None
    /\ df_cleaned = None
    /\ df_with_interest = None
    /\ df_debit_notes = None
    /\ opening_balance_age \in OpeningBalanceAges
    /\ interest_calculator = None
    /\ debit_note_gen = None
    /\ error = NoError
    /\ session_state = EmptySession

NextCleaner == FilterOverdue \/ CleanData

SpecCleaner == InitCleaner /\ [][NextCleaner]_vars

---------------------------------------------------------------------------
(* The Interest Calculator alone: calculate_interest on cleaned tables.   *)

\* the columns clean_data returns for a sheet of RawColumns
CleanedColumns == RawColumns

\* a cleaned row: Status is Overdue, Amount and Balance Due are numbers,
\* Age is a number or missing
CleanedCells ==
    {RawRow(CleanedColumns, Whole(1), name, Invoice, Overdue, balance, balance,
            age) :
        name \in {Str(<<"A">>), Str(<<"B">>)},
        balance \in {Whole(0), Whole(10000)},
        age \in {Whole(150), Whole(151), Whole(200), Whole(300), NaN}}

CalculatorThresholds == {0, 150}

CalculatorMaxWorkingDays == {0, 1, 31}

InitCalculator ==
    /\ pc = "calculate_interest"
    /\ df_raw = None
    /\ df_filtered = None
    /\ \E m \in 0..MaxCleanedRows :
          \E f \in [1..m -> CleanedCells] : df_cleaned = Table(CleanedColumns, f, m)
    /\ df_with_interest = None
    /\ df_debit_notes = None
    /\ opening_balance_age = DefaultOpeningBalanceAge
    /\ interest_calculator \in
          {InterestCalculator(6, t, m) :
              t \in CalculatorThresholds, m \in CalculatorMaxWorkingDays}
    /\ debit_note_gen = None
    /\ error = NoError
    /\ session_state = EmptySession

NextCalculator == CalculateInterest

SpecCalculator == InitCalculator /\ [][NextCalculator]_vars

---------------------------------------------------------------------------
(* The Debit Note Generator alone: generate_debit_notes on interest       *)
(* tables that hold the columns it groups by.                             *)

InterestColumns == Range(final_columns) \cup {"Sales person"}

\* an interest row: customer number, salesperson (may be missing) and
\* interest amount (ten-thousandths) vary
InterestCells ==
    {[c \in InterestColumns |->
        CASE c = "Customer Number" -> number
          [] c = "Sales person" -> salesperson
          [] c = "interest amount" -> amount
          [] c = "Customer Name" -> Str(<<"A">>)
          [] c = "Region" -> Str(<<"N", "o", "r", "t", "h">>)
          [] c = "Area Name" -> Str(<<"A", "r", "e", "a", " ", "1">>)
          [] c = "Status" -> Overdue
          [] c = "Type" -> Invoice
          [] c \in {"Amount", "Balance Due"} -> Whole(10000)
          [] c = "Age" -> Whole(200)
          [] c = "Due days" -> Whole(150)
          [] c = "Previous interst" -> Whole(19)
          [] c = "interst working" -> Whole(31)
          [] c = "per day interst%" -> Num(6)
          [] c = "working interst in %" -> Num(186)
          [] OTHER -> Str(<<"x">>)] :
        number \in {Whole(1), Whole(2)},
        salesperson \in {Str(<<"S", "1">>), Str(<<"S", "2">>), NaN},
        amount \in {Num(1860000), Num(5000)}}

GeneratorStartingNumbers == {311, 999999}

InitGenerator ==
    /\ pc = "generate_debit_notes"
    /\ df_raw = None
    /\ df_filtered = None
    /\ df_cleaned = None
    /\ \E m \in 0..MaxInterestRows :
          \E f \in [1..m -> InterestCells] :
             df_with_interest = Table(InterestColumns, f, m)
    /\ df_debit_notes = None
    /\ opening_balance_age = DefaultOpeningBalanceAge
    /\ interest_calculator = None
    /\ debit_note_gen \in
          {DebitNoteGenerator(InvoicePrefix, n) : n \in GeneratorStartingNumbers}
    /\ error = NoError
    /\ session_state = EmptySession

NextGenerator == GenerateDebitNotes

SpecGenerator == InitGenerator /\ [][NextGenerator]_vars


---------------------------------------------------------------------------
(* The session: what app.main keeps in st.session_state between the       *)
(* reruns of the script.  The button handler (lines 143-181) stores the   *)
(* two tables after line 168 has returned; 'Start New Process' (lines     *)
(* 340-346) deletes them.  The handler is taken from line 168 on: the     *)
(* stages before it have returned an interest table, which holds the      *)
(* column the generator groups by or, as the calculator's own tables do,  *)
(* lacks it.                                                              *)

\* the keys the handler stores its results under
ResultKeys == {"df_interest", "df_debit_notes", "processed"}

\* st.session_state[key] = value
SetItem(state, key, value) ==
    [k \in DOMAIN state \cup {key} |-> IF k = key THEN value ELSE state[k]]

\* del st.session_state[key], for the keys that are set
DelItems(state, keys) == [k \in DOMAIN state \ keys |-> state[k]]

\* storing the interest table alone
store_interest_only(state, df_with_interest_, df_debit_notes_) ==
    SetItem(state, "df_interest", df_with_interest_)

\* lines 171-174
store_results(state, df_with_interest_, df_debit_notes_) ==
    SetItem(SetItem(SetItem(SetItem(state,
        "df_interest", df_with_interest_),
        "df_debit_notes", df_debit_notes_),
        "processed", TRUE),
        "current_tab", 1)

\* 'processed' in st.session_state and st.session_state['processed']
processed(state) == "processed" \in DOMAIN state /\ state["processed"] = TRUE

\* bound of the model: the most rows of an interest table of the session
MaxSessionRows == 1

SessionColumns == {InterestColumns, Range(final_columns)}

SessionCells(columns) ==
    {[c \in columns |-> cell[c]] :
        cell \in {x \in InterestCells :
                    /\ x["Sales person"] = Str(<<"S", "1">>)
                    /\ x["interest amount"] = Num(1860000)}}

SessionGenerators ==
    {DebitNoteGenerator(InvoicePrefix, n) : n \in GeneratorStartingNumbers}

Tabs == {0, 1, 2}

InitSession ==
    /\ pc = "idle"
    /\ df_raw = None
    /\ df_filtered = None
    /\ df_cleaned = None
    /\ df_with_interest = None
    /\ df_debit_notes = None
    /\ opening_balance_age = DefaultOpeningBalanceAge
    /\ interest_calculator = None
    /\ debit_note_gen = None
    /\ error = NoError
    /\ session_state = EmptySession

\* the button 'Process Data & Generate Debit Notes', lines 143-164: the
\* script runs anew and reaches line 168 with an interest table
ProcessData ==
    /\ pc = "idle"
    /\ \E columns \in SessionColumns, m \in 0..MaxSessionRows :
          \E f \in [1..m -> SessionCells(columns)] :
             df_with_interest' = Table(columns, f, m)
    /\ debit_note_gen' \in SessionGenerators
    /\ df_debit_notes' = None
    /\ error' = NoError
    /\ pc' = "generate_debit_notes"
    /\ UNCHANGED <<df_raw, df_filtered, df_cleaned, opening_balance_age,
                   interest_calculator, session_state>>

\* lines 171-177: the results go to the session
StoreResults ==
    /\ pc = "done"
    /\ session_state' =
          store_results(session_state, df_with_interest, df_debit_notes)
    /\ pc' = "idle"
    /\ UNCHANGED <<df_raw, df_filtered, df_cleaned, df_with_interest,
                   df_debit_notes, opening_balance_age, interest_calculator,
                   debit_note_gen, error>>

\* lines 179-181: the exception is shown, the session is not written
ShowError ==
    /\ pc = "error"
    /\ pc' = "idle"
    /\ UNCHANGED <<df_raw, df_filtered, df_cleaned, df_with_interest,
                   df_debit_notes, opening_balance_age, interest_calculator,
                   debit_note_gen, error, session_state>>

\* the buttons that change the tab (lines 189-192, 283-289, 336-338),
\* shown when 'processed' is set
Navigate ==
    /\ pc = "idle"
    /\ processed(session_state)
    /\ \E tab \in Tabs :
          session_state' = SetItem(session_state, "current_tab", tab)
    /\ UNCHANGED <<pc, df_raw, df_filtered, df_cleaned, df_with_interest,
                   df_debit_notes, opening_balance_age, interest_calculator,
                   debit_note_gen, error>>

\* the button 'Start New Process', lines 340-346, shown when 'processed'
\* is set
StartNewProcess ==
    /\ pc = "idle"
    /\ processed(session_state)
    /\ session_state' =
          SetItem(DelItems(session_state, ResultKeys), "current_tab", 0)
    /\ UNCHANGED <<pc, df_raw, df_filtered, df_cleaned, df_with_interest,
                   df_debit_notes, opening_balance_age, interest_calculator,
                   debit_note_gen, error>>

NextSession ==
    \/ ProcessData
    \/ GenerateDebitNotes
    \/ StoreResults
    \/ ShowError
    \/ Navigate
    \/ StartNewProcess

SpecSession == InitSession /\ [][NextSession]_vars
---------------------------------------------------------------------------
(* Properties of the run *)

\* the columns the spec requires of the uploaded sheet, under the names
\* the stages read them by
RequiredInputColumns == RawColumns

\* C1: for any raw table that holds the required input columns, the table
\* calculate_interest returns holds every column generate_debit_notes
\* groups by, and the run Cleaner -> Calculator -> Generator does not fail.
C1_StagesCompose ==
    RequiredInputColumns \subseteq df_raw.columns =>
        /\ pc # "error"
        /\ pc = "generate_debit_notes" =>
              Range(group_keys) \subseteq df_with_interest.columns

\* the range the configuration allows for the starting invoice number
MinStartingNumber == 1

MaxStartingNumber == 999999

InvalidParameters ==
    (IF interest_calculator.per_day_rate < 0 THEN {"per_day_rate"} ELSE {})
      \cup (IF interest_calculator.max_working_days <= 0
            THEN {"max_working_days"} ELSE {})
      \cup (IF debit_note_gen.starting_number \notin
                  MinStartingNumber..MaxStartingNumber
            THEN {"starting_number"} ELSE {})

\* C6: a negative per-day rate, a zero or negative max_working_days or a
\* starting invoice number outside the valid range is rejected before any
\* row is processed, with an error that names the parameter; no interest
\* or debit-note table is produced.
C6_InvalidConfigurationRejected ==
    (pc # "construct" /\ InvalidParameters # {}) =>
        /\ pc = "error"
        /\ error.arg \in InvalidParameters
        /\ df_filtered = None
        /\ df_with_interest = None
        /\ df_debit_notes = None

---------------------------------------------------------------------------
(* Properties of the Cleaner *)

Cleaned == pc = "calculate_interest"

\* the row of the sheet a cleaned row comes from: index labels are kept
RawRowOf(r) == df_raw.rows[r.idx + 1]

CurrencyColumns == {"Balance Due", "Amount"}

\* C4: in Amount and Balance Due, a value written with the rupee sign and
\* thousands separators parses to its number (U+20B9 12,345.00 gives
\* 12345.00), and a value that does not parse ("abc", "") becomes 0.
C4_CurrencyNormalization ==
    Cleaned =>
        \A i \in 1..Len(df_cleaned.rows) : \A col \in CurrencyColumns :
            LET raw == RawRowOf(df_cleaned.rows[i]).cell[col]
                cleaned == df_cleaned.rows[i].cell[col]
            IN  /\ raw = Str(RupeeAmountText) => cleaned = Num(1234500)
                /\ raw \in {Str(UnparseableText), Str(EmptyText)} =>
                      cleaned = Num(0)

IsOpeningBalance(r) == r.cell["Type"] = CustomerOpeningBalance

\* C5 as claimed: every cleaned row has Balance Due >= 0 and Amount >= 0,
\* and an Age that is a non-negative number, or the override constant on
\* an opening-balance row.
C5_ValueDomain ==
    Cleaned =>
        \A i \in 1..Len(df_cleaned.rows) :
            LET r == df_cleaned.rows[i]
            IN  /\ \A col \in CurrencyColumns :
                      r.cell[col].k = "num" /\ r.cell[col].v >= 0
                /\ IF IsOpeningBalance(r)
                   THEN r.cell["Age"] = Whole(opening_balance_age)
                   ELSE r.cell["Age"].k = "num" /\ r.cell["Age"].v >= 0

\* a "-" in the text of a raw cell
WrittenNegative(c) == Occurs(astype_str(c), "-")

\* C5 as amended: every cleaned row has a Balance Due and an Amount that
\* are numbers, never missing, and negative only where the raw value is
\* written negative; its Age is the override constant on an
\* opening-balance row and otherwise a number (negative only where written
\* negative) or missing.
C5_ValueDomainAmended ==
    Cleaned =>
        \A i \in 1..Len(df_cleaned.rows) :
            LET r == df_cleaned.rows[i]
            IN  /\ \A col \in CurrencyColumns :
                      /\ r.cell[col].k = "num"
                      /\ r.cell[col].v < 0 => WrittenNegative(RawRowOf(r).cell[col])
                /\ IF IsOpeningBalance(r)
                   THEN r.cell["Age"] = Whole(opening_balance_age)
                   ELSE \/ r.cell["Age"].k = "nan"
                        \/ /\ r.cell["Age"].k = "num"
                           /\ r.cell["Age"].v < 0 =>
                                 WrittenNegative(RawRowOf(r).cell["Age"])

\* a cleaned table with a negative Balance Due in one row and, in another,
\* a missing Age and a Balance Due coerced from "abc" to 0
C5_Witness ==
    /\ Cleaned
    /\ \E i, j \in 1..Len(df_cleaned.rows) :
          /\ df_cleaned.rows[i].cell["Balance Due"].v < 0
          /\ df_cleaned.rows[j].cell["Age"].k = "nan"
          /\ RawRowOf(df_cleaned.rows[j]).cell["Balance Due"] = Str(UnparseableText)
          /\ df_cleaned.rows[j].cell["Balance Due"] = Num(0)

\* C9: only rows whose Status is exactly "Overdue" appear after the
\* Cleaner, every such row is kept, in its original relative order, and
\* the other rows are dropped without error.
C9_OnlyOverdue ==
    Cleaned =>
        /\ error = NoError
        /\ \A i \in 1..Len(df_cleaned.rows) :
              /\ df_cleaned.rows[i].cell["Status"] = Overdue
              /\ RawRowOf(df_cleaned.rows[i]).cell["Status"] = Overdue
        /\ \A i \in 1..Len(df_raw.rows) :
              df_raw.rows[i].cell["Status"] = Overdue =>
                 \E j \in 1..Len(df_cleaned.rows) :
                    df_cleaned.rows[j].idx = df_raw.rows[i].idx
        /\ \A i, j \in 1..Len(df_cleaned.rows) :
              i < j => df_cleaned.rows[i].idx < df_cleaned.rows[j].idx

\* a sheet whose first row has Status "overdue" and whose second has
\* "Overdue": the second alone is kept
C9_Witness ==
    /\ Cleaned
    /\ Len(df_raw.rows) = 2
    /\ df_raw.rows[1].cell["Status"] = Str(
        <<"o", "v", "e", "r", "d", "u", "e">>)
    /\ Len(df_cleaned.rows) = 1
    /\ df_cleaned.rows[1].idx = 1

\* the Age each raw age cell of the sheets parses to
ParsedAge(raw) ==
    CASE raw = Str(DaysAgeText) -> Whole(200)
      [] raw = Str(PlainAgeText) -> Whole(150)
      [] raw = Str(PaddedAgeText) -> Whole(31)
      [] raw = Whole(151) -> Whole(151)
      [] raw = Str(UnparseableText) -> NaN
      [] raw = NaN -> NaN

\* C10: after clean_age_column every opening-balance row has Age equal to
\* the override constant whatever its raw age was, and every other row's
\* Age is its parsed raw value ("200 Days" gives 200).
C10_OpeningBalanceOverride ==
    Cleaned =>
        \A i \in 1..Len(df_cleaned.rows) :
            LET r == df_cleaned.rows[i]
            IN  IF RawRowOf(r).cell["Type"] = CustomerOpeningBalance
                THEN r.cell["Age"] = Whole(opening_balance_age)
                ELSE r.cell["Age"] = ParsedAge(RawRowOf(r).cell["Age"])

\* an opening-balance row whose raw age is "200 Days" beside an invoice
\* row with the same raw age
C10_Witness ==
    /\ Cleaned
    /\ \E i, j \in 1..Len(df_cleaned.rows) :
          /\ RawRowOf(df_cleaned.rows[i]).cell["Type"] = CustomerOpeningBalance
          /\ RawRowOf(df_cleaned.rows[i]).cell["Age"] = Str(DaysAgeText)
          /\ df_cleaned.rows[i].cell["Age"] = Whole(opening_balance_age)
          /\ RawRowOf(df_cleaned.rows[j]).cell["Type"] = Invoice
          /\ RawRowOf(df_cleaned.rows[j]).cell["Age"] = Str(DaysAgeText)
          /\ df_cleaned.rows[j].cell["Age"] = Whole(200)

---------------------------------------------------------------------------
(* Properties of the Interest Calculator *)

Calculated == pc = "generate_debit_notes"

\* the rows of the interest table that come from row r of the cleaned
\* table: the transaction reference tells the rows apart
InterestRowsOf(r) ==
    {j \in 1..Len(df_with_interest.rows) :
        df_with_interest.rows[j].cell["Transaction#"] = r.cell["Transaction#"]}

\* C7: a row is kept if and only if its Age is strictly greater than
\* due_days_threshold: Age = threshold is excluded, Age = threshold + 1 is
\* included, and a missing Age is excluded without an error.
C7_StrictAgeFilter ==
    Calculated =>
        /\ error = NoError
        /\ \A i \in 1..Len(df_cleaned.rows) :
              LET r == df_cleaned.rows[i]
                  threshold == interest_calculator.due_days_threshold
                  kept == Cardinality(InterestRowsOf(r)) = 1
                  dropped == InterestRowsOf(r) = {}
              IN  /\ kept \/ dropped
                  /\ kept <=> (r.cell["Age"].k = "num"
                                 /\ r.cell["Age"].v > threshold * 100)
                  /\ r.cell["Age"] = Whole(threshold) => dropped
                  /\ r.cell["Age"] = Whole(threshold + 1) => kept
                  /\ r.cell["Age"] = NaN => dropped

\* a cleaned table with a row of Age = threshold and a row of
\* Age = threshold + 1: the interest table holds the second alone
C7_Witness ==
    /\ Calculated
    /\ Len(df_cleaned.rows) = 2
    /\ df_cleaned.rows[1].cell["Age"] =
          Whole(interest_calculator.due_days_threshold)
    /\ df_cleaned.rows[2].cell["Age"] =
          Whole(interest_calculator.due_days_threshold + 1)
    /\ Len(df_with_interest.rows) = 1
    /\ InterestRowsOf(df_cleaned.rows[2]) = {1}

Min(a, b) == IF a < b THEN a ELSE b

\* C8: for every row of the interest table, working days
\* = min(Age - threshold, max_working_days) and previous-interest days
\* = (Age - threshold) - working days, so the two add up to Age - threshold
\* and previous-interest days >= 0.
C8_WorkingDays ==
    Calculated =>
        \A j \in 1..Len(df_with_interest.rows) :
            LET r == df_with_interest.rows[j]
                overdue == r.cell["Age"].v
                             - interest_calculator.due_days_threshold * 100
                working == r.cell["interst working"]
                previous == r.cell["Previous interst"]
            IN  /\ working =
                      Num(Min(overdue, interest_calculator.max_working_days * 100))
                /\ previous = Num(overdue - working.v)
                /\ working.v + previous.v = overdue
                /\ previous.v >= 0

\* Age = threshold + 50 under a cap of 31: 31 working days, 19 previous
C8_Witness ==
    /\ Calculated
    /\ interest_calculator.max_working_days = 31
    /\ \E j \in 1..Len(df_with_interest.rows) :
          /\ df_with_interest.rows[j].cell["Age"] =
                Whole(interest_calculator.due_days_threshold + 50)
          /\ df_with_interest.rows[j].cell["interst working"] = Whole(31)
          /\ df_with_interest.rows[j].cell["Previous interst"] = Whole(19)

---------------------------------------------------------------------------
(* Properties of the Debit Note Generator *)

Generated == pc = "done"

\* C2: the rows of the debit-note table are in ascending customer-id order
\* and the row at position i (0-based) carries the invoice number
\* prefix + zero_pad(starting_number + i, 6), also where several groups
\* share one customer id.
C2_InvoiceNumbersInSortedOrder ==
    Generated =>
        /\ \A i, j \in 1..Len(df_debit_notes.rows) :
              i < j => ~CellLess(df_debit_notes.rows[j].cell["Customer ID"],
                                 df_debit_notes.rows[i].cell["Customer ID"])
        /\ \A i \in 1..Len(df_debit_notes.rows) :
              df_debit_notes.rows[i].cell["Invoice No."] =
                 Str(debit_note_gen.invoice_prefix
                       \o zfill(IntToText(debit_note_gen.starting_number + i - 1), 6))

\* the (customer id, customer name, area, region, salesperson)
\* combinations among the interest records
Combinations ==
    {KeyOf(df_with_interest.rows[i]) : i \in 1..Len(df_with_interest.rows)}

\* C3: exactly one debit-note row per distinct (customer id, customer
\* name, area, region, salesperson) combination among the interest
\* records, a combination with a missing field included: none is merged
\* with another or left out.
C3_OneRowPerCombination ==
    Generated =>
        /\ Len(df_debit_notes.rows) = Cardinality(Combinations)
        /\ \A key \in Combinations :
              Cardinality({j \in 1..Len(df_debit_notes.rows) :
                  /\ df_debit_notes.rows[j].cell["Customer ID"] = key[1]
                  /\ df_debit_notes.rows[j].cell["Customer Name"] = key[2]
                  /\ df_debit_notes.rows[j].cell["Sales person"] = key[5]}) = 1


---------------------------------------------------------------------------
(* Order and range in the Interest Calculator *)

\* the position in the interest table of the row that comes from row i of
\* the cleaned table, or 0 when the row was dropped
PositionOf(i) ==
    LET js == InterestRowsOf(df_cleaned.rows[i])
    IN  IF js = {} THEN 0 ELSE CHOOSE j \in js : TRUE

\* C14: calculate_interest orders the surviving rows by customer name
\* ascending with a stable sort: two rows with the same customer name
\* appear in the output in the relative order they had in the input.
C14_StableSort ==
    Calculated =>
        /\ \A i, j \in 1..Len(df_with_interest.rows) :
              i < j => ~CellLess(df_with_interest.rows[j].cell["Customer Name"],
                                 df_with_interest.rows[i].cell["Customer Name"])
        /\ \A i, j \in 1..Len(df_cleaned.rows) :
              (/\ i < j
               /\ PositionOf(i) # 0
               /\ PositionOf(j) # 0
               /\ df_cleaned.rows[i].cell["Customer Name"]
                     = df_cleaned.rows[j].cell["Customer Name"])
                 => PositionOf(i) < PositionOf(j)

\* C15: for every row of the interest table, under every configuration
\* and cleaned table the calculator accepts, interest working days lies
\* in the range [1, max_working_days].
C15_WorkingDaysInRange ==
    Calculated =>
        \A j \in 1..Len(df_with_interest.rows) :
            LET working == df_with_interest.rows[j].cell["interst working"]
            IN  /\ working.k = "num"
                /\ 100 <= working.v
                /\ working.v <= interest_calculator.max_working_days * 100

---------------------------------------------------------------------------
(* The Cleaner applied to its own result *)

\* the Cleaner (filter_overdue, then clean_data with the same override)
\* applied to the cleaned table
CleanedAgain ==
    LET filtered == filter_overdue(df_cleaned)
    IN  IF filtered.error # NoError THEN filtered
        ELSE clean_data(filtered.df, opening_balance_age)

\* C12: applying the Cleaner to a table the Cleaner produced returns a
\* table identical to it, row for row and value for value.
C12_CleanerIdempotent ==
    Cleaned =>
        /\ CleanedAgain.error = NoError
        /\ CleanedAgain.df = df_cleaned

\* a cleaned table with a negative amount, an age that did not parse and
\* an opening-balance row, which the second application returns as it is
C12_Witness ==
    /\ Cleaned
    /\ \E i, j \in 1..Len(df_cleaned.rows) :
          /\ df_cleaned.rows[i].cell["Balance Due"] = Whole(-100)
          /\ df_cleaned.rows[i].cell["Amount"] = Whole(1000)
          /\ df_cleaned.rows[j].cell["Age"] = NaN
          /\ \/ df_cleaned.rows[i].cell["Type"] = CustomerOpeningBalance
             \/ df_cleaned.rows[j].cell["Type"] = CustomerOpeningBalance
    /\ CleanedAgain = Returns(df_cleaned)

---------------------------------------------------------------------------
(* The tables passed to the stages *)

\* C13: each stage entry point (clean_data, calculate_interest,
\* generate_debit_notes) leaves the table passed to it unchanged - same
\* rows, columns and values after the call as before - and returns a new
\* table, whether or not the column 'Sale person' is present.
C13_NoInPlaceMutation ==
    [][/\ pc = "clean_data" =>
            /\ df_filtered' = df_filtered
            /\ LET call == clean_data_call(df_filtered, opening_balance_age)
               IN  call.error = NoError => call.df # 1
       /\ pc = "calculate_interest" =>
            /\ df_cleaned' = df_cleaned
            /\ \A call \in calculate_interest_calls(interest_calculator,
                                                    df_cleaned) :
                  call.error = NoError => call.df # 1
       /\ pc = "generate_debit_notes" =>
            /\ df_with_interest' = df_with_interest
            /\ \A today \in Dates :
               \A call \in generate_debit_notes_calls(debit_note_gen,
                                                      df_with_interest, today) :
                  call.error = NoError => call.df # 1]_vars

\* the three stages have been called on a sheet without 'Sale person':
\* the table passed to clean_data still holds the amount as text, the
\* cleaned one holds it as a number and has none of the derived columns
C13_Witness ==
    /\ pc = "error"
    /\ error = KeyError("Sales person")
    /\ "Sale person" \notin df_raw.columns
    /\ df_filtered.columns = df_raw.columns
    /\ \E i \in 1..Len(df_filtered.rows) :
          /\ df_filtered.rows[i].cell["Balance Due"] = Str(
              <<"1", ",", "0", "0", "0", ".", "0", "0">>)
          /\ df_cleaned.rows[i].cell["Balance Due"] = Whole(1000)
    /\ df_cleaned.columns \cap DerivedColumns = {}
    /\ Len(df_with_interest.rows) > 0
    /\ DerivedColumns \subseteq df_with_interest.columns

---------------------------------------------------------------------------
(* The session *)

\* the result keys that are set in the session
HeldResults == DOMAIN session_state \cap ResultKeys

\* debit is a debit-note table that one run returns for the interest table
OneRun(interest, debit) ==
    \E self \in SessionGenerators, today \in Dates :
        Returns(debit) \in generate_debit_notes(self, interest, today)

\* C11: after any sequence of user actions (a process run that succeeds,
\* one that fails, 'Start New Process') the session holds either no result
\* at all, or the interest table and the debit-note table of one and the
\* same completed run with 'processed' set; a failing run stores no
\* partial result and results of different runs are never mixed.
C11_AtomicRuns ==
    \/ HeldResults = {}
    \/ /\ HeldResults = ResultKeys
       /\ session_state["processed"] = TRUE
       /\ OneRun(session_state["df_interest"], session_state["df_debit_notes"])

\* a run has completed and stored its tables, and a later run on another
\* interest table has failed in generate_debit_notes: the session still
\* holds the two tables of the first
C11_Witness ==
    /\ pc = "error"
    /\ error = KeyError("Sales person")
    /\ HeldResults = ResultKeys
    /\ Len(session_state["df_debit_notes"].rows) = 1
    /\ session_state["df_interest"] # df_with_interest
    /\ OneRun(session_state["df_interest"], session_state["df_debit_notes"])
=============================================================================
